---- MODULE Spec2Model ----
(***************************************************************************)
(* The handle variant of the coroutine package (src/coroutine.go 1-292):   *)
(* one Coroutine made by Create or Start, its body task, one controller    *)
(* task, and the closures of timed or cancellable calls whose timer fired  *)
(* while they were still running.                                          *)
(*                                                                         *)
(* Every call of Resume or Yield runs a closure (a "frame").  A frame is   *)
(* stepped one shared-memory or channel operation at a time, so that the   *)
(* unsynchronised reads and writes of c.status interleave as they do in    *)
(* the program.  safe.Do runs the closure and turns a panic into an error; *)
(* safe.DoWithTimeout / safe.DoWithContext return to their caller when the *)
(* timer or the cancellation fires first, and the closure, which nothing   *)
(* can stop, stays in flight without an owner.                             *)
(*                                                                         *)
(* The entry point may itself act as a controller: it spawns a task that   *)
(* calls Yield on its Handle and calls Resume on it (SpecHelper).          *)
(*                                                                         *)
(* The registry variant (src/coroutine.go 294-561) is modelled beside it:  *)
(* one Coroutine stored under its identifier, the task that runs Call, the *)
(* tasks that call Resume, TryResume or AsyncResume, and a task that calls *)
(* Status.  c.mutexStatus is held for one access of c.status at a time, so *)
(* each read and each write of the status is one step; c.mutexResume is a  *)
(* variable.  A timer of a select can win only while the channel operation *)
(* of the other case cannot be done.                                       *)
(***************************************************************************)
EXTENDS Integers, Sequences, FiniteSets, TLC

\* ------------------------------------------------------------- bounds
MaxResumes == 3
MaxYields == 2
MaxOrphans == 1
\* the Resume calls of a second controller task
MaxResumes2 == 2
\* the registry variant: resume calls, explicit Yields of the body
MaxRegCalls == 3
MaxRegYields == 1

\* --------------------------------------------------- program constants
\* make(chan []any, 1)
ChanCap == 1

\* Status
CREATED == "Created"
RUNNING == "Running"
SUSPENDED == "Suspended"
CLOSED == "Closed"
Status == {CREATED, RUNNING, SUSPENDED, CLOSED}

\* errors
NoErr == "nil"
ErrCoroutineIsClosed == "coroutine is closed"
ErrInvalidFunction == "invalid function"
\* the runtime panic of a send on a closed channel, as safe.Do returns it
ErrSendOnClosed == "send on closed channel"
\* what a timed or cancellable wrapper returns when its timer or signal wins
ErrDeadline == "deadline exceeded"
\* an error value the entry point returns
ErrApp == "application error"
\* a panic raised by the entry point
ErrBodyPanic == "body panic"

\* The callable shapes Create accepts (its type switch), and one it does not.
Shapes == {"co_args_err", "co_args", "co_err", "co", "err", "noargs"}
Unsupported == "unsupported"
\* the shapes whose callable gets the *Coroutine, and so can call Yield
HasHandle(s) == s \in {"co_args_err", "co_args", "co_err", "co"}
\* the shapes whose callable returns an error; the wrappers of the others return nil
ReturnsErr(s) == s \in {"co_args_err", "co_err", "err"}
\* c.function for a callable of shape s: what the wrapper hands on and hands back
WrapCallable(s) == [handle |-> HasHandle(s), err |-> ReturnsErr(s)]

\* c.function before the type switch of Create has assigned it
NilFunction == [nil |-> TRUE]

\* ------------------------------------------------------------- values
\* the nil interface value, as an element of a []any
NilVal == "nil"
\* a nil or empty []any is the empty sequence
NilSlice == << >>
Msgs == {<< >>, <<"a">>, <<"b", "a">>}
\* the values passed where calls can lose their race
TimedMsgs == {<< >>, <<"a">>}
Modes == {"plain", "timeout", "context"}
\* what each of two concurrent controllers passes: never the same value
In1 == {<<"a">>}
In2 == {<<"b", "a">>}

\* ------------------------------------------------------------- frames
Ctl == <<"ctl", 0>>
\* a second task that holds the Handle and calls Resume
Ctl2 == <<"ctl", 1>>
Body == <<"body", 0>>
\* a task the entry point spawns with a go statement
Helper == <<"helper", 0>>
Orph(k) == <<"orphan", k>>
FrameIds == {Ctl, Ctl2, Body, Helper} \cup {Orph(k) : k \in 1..MaxOrphans}
IdleFrame == [pc |-> "idle", kind |-> "none", mode |-> "plain",
              arg |-> NilSlice, got |-> NilSlice, err |-> NoErr,
              ops |-> 0, late |-> FALSE]
\* a call that has just been made; late: c.status was CLOSED when it was made
NewFrame(kind, mode, arg, late) ==
    [IdleFrame EXCEPT !.pc = IF kind = "resume" THEN "r_check" ELSE "y_check",
                      !.kind = kind, !.mode = mode, !.arg = arg, !.late = late]
InFlight(f) == f.pc \notin {"idle", "done"}

VARIABLES
    status,      \* c.status
    inputCh,     \* c.inputCh: [buf, closed]
    outputCh,    \* c.outputCh: [buf, closed]
    function,    \* c.function, the wrapped callable; NilFunction before Create
    fr,          \* the frame of each task's current call, and the ownerless ones
    ctlPc,       \* the controller: "init", "ready", "calling", "end"
    viaStart,    \* the controller called Start, not Create
    createErr,   \* what Create returned as its error; "none" before it returned
    startErr,    \* what Start returned; "none" before it returned
    bodyPc,      \* the body task
    bodyErr,     \* what the closure of the body task returns
    nOrph,       \* how many timed or cancellable calls lost their race
    \* history, for the properties
    statusAtCreate, \* c.status when Create returned
    resumeCalls, \* the controller's Resume calls: [in, afterDeadline]
    resumeRets,  \* what they returned: [out, err, bodyErr]
    lateYields,  \* what the controller's Yield calls returned: [in, err]
    yieldCalls,  \* the outputs of the body's explicit Yield calls
    yieldRets,   \* what they returned: [in, err]
    bodyArgs,    \* the arguments c.function was invoked with, one per invocation
    nSends,      \* how many inputs the Resume closures have sent on inputCh
    pendErr,     \* what the entry point ended with while the controller's Resume was
                 \* waiting for output; "none" otherwise
    prevStatus,  \* the value c.status had before its last change
    \* a second task the entry point spawns, and the entry point's own Resume
    helperPc,        \* the spawned task: "none", "spawned", "calling", "done"
    helperCalls,     \* the outputs of the spawned task's Yield calls
    helperRets,      \* what they returned: [in, err]
    bodyResumeCalls, \* the inputs of the entry point's Resume calls
    bodyResumeRets,  \* what they returned: [out, err]
    \* a second controller task
    ctl2Calls,       \* the inputs of its Resume calls
    ctl2Rets,        \* what they returned: [out, err]
    takers,          \* the Resume calls that received a published output, in the
                     \* order of the receives: [in, out]
    \* the registry variant (src/coroutine.go 294-561)
    coroutines,    \* the identifiers stored in the registry (sync.Map)
    regStatus,     \* c.status of the wrapped coroutine; "none" before Wrap
    inCh,          \* c.inCh, its buffer
    outCh,         \* c.outCh, its buffer
    mutexResume,   \* c.mutexResume: the task that holds it, or Free
    call,          \* the task that runs Call: [pc, startup, err, out, got]
    rf,            \* the task of each Resume, TryResume or AsyncResume call
    obs,           \* the task that calls Status: [pc, id, late, ret]
    \* history, for the properties
    nRegCalls,     \* how many resume calls were made
    nRegYields,    \* how many explicit Yields the body has made
    yieldsEntered, \* how many Yields have written Suspended
    outputsTaken   \* how many outputs the resume calls have received

handleVars == <<status, inputCh, outputCh, function, fr, ctlPc, viaStart, createErr,
          startErr, bodyPc, bodyErr, nOrph, statusAtCreate, resumeCalls,
          resumeRets, lateYields, yieldCalls, yieldRets, bodyArgs, nSends, pendErr, prevStatus,
          helperPc, helperCalls, helperRets, bodyResumeCalls, bodyResumeRets,
          ctl2Calls, ctl2Rets, takers>>

regVars == <<coroutines, regStatus, inCh, outCh, mutexResume, call, rf, obs,
             nRegCalls, nRegYields, yieldsEntered, outputsTaken>>

vars == <<handleVars, regVars>>

chans == <<inputCh, outputCh>>
ctlVars == <<ctlPc, viaStart, createErr, startErr, statusAtCreate, resumeCalls, resumeRets,
             lateYields>>
bodyVars == <<bodyPc, bodyErr, yieldCalls, yieldRets, bodyArgs, pendErr>>
helperVars == <<helperPc, helperCalls, helperRets, bodyResumeCalls, bodyResumeRets>>
twoVars == <<ctl2Calls, ctl2Rets, takers>>

\* ------------------------------------------------------------ channels
NewChan == [buf |-> << >>, closed |-> FALSE]
CanSend(ch) == ch.closed \/ Len(ch.buf) < ChanCap
CanRecv(ch) == ch.closed \/ Len(ch.buf) > 0
\* a receive that yields the zero value as soon as the channel is closed
RecvValZeroOnceClosed(ch) == IF ch.closed \/ Len(ch.buf) = 0 THEN NilSlice ELSE Head(ch.buf)

\* the value a receive yields: the buffered message, or the zero value of a closed channel
RecvVal(ch) == IF Len(ch.buf) > 0 THEN Head(ch.buf) ELSE NilSlice
\* a receive that leaves the message in the buffer
AfterRecvKeepsMessage(ch) == ch

AfterRecv(ch) == IF Len(ch.buf) > 0 THEN [ch EXCEPT !.buf = Tail(@)] ELSE ch
AfterSend(ch, m) == [ch EXCEPT !.buf = Append(@, m)]

\* c.status = s
SetStatus(s) ==
    /\ status' = s
    /\ prevStatus' = IF s = status THEN prevStatus ELSE status

\* ------------------------------------------------ the registry variant
\* StatusType
Created == "Created"
Suspended == "Suspended"
Running == "Running"
Dead == "Dead"

\* the identifier Wrap returns, and one that was never registered
ID1 == "id1"
Ghost == "ghost"
IDs == {ID1, Ghost}

\* the panics of the registry variant
ErrMissing == "coroutine missing"
ErrDead == "coroutine is dead"
ErrSuspendedTimeout == "coroutine suspended timeout"
ErrCallback == "callback panic"

\* the values handed over in the registry variant
RegMsgs == {<<"a">>}

\* c.mutexResume unlocked
Free == <<"free", 0>>
\* the tasks that call Resume, TryResume or AsyncResume
Res1 == <<"res", 1>>
Res2 == <<"res", 2>>
Res == {Res1, Res2}
Kinds == {"Resume", "TryResume", "AsyncResume"}
\* ret: "ok" for (outData, true), "notok" for (nil, false), else the panic raised;
\* errCh: how many errors the signal of an AsyncResume holds
IdleRes == [pc |-> "idle", kind |-> "none", id |-> ID1, arg |-> NilSlice,
            got |-> NilSlice, ops |-> 0, seen |-> "none", ret |-> "none", errCh |-> 0]
IdleCall == [pc |-> "none", startup |-> FALSE, err |-> "none", out |-> NilSlice,
             got |-> NilSlice]
IdleObs == [pc |-> "idle", id |-> ID1, late |-> FALSE, ret |-> "none"]

RegInit ==
    /\ coroutines = {}
    /\ regStatus = "none"
    /\ inCh = << >>
    /\ outCh = << >>
    /\ mutexResume = Free
    /\ call = IdleCall
    /\ rf = [r \in Res |-> IdleRes]
    /\ obs = IdleObs
    /\ nRegCalls = 0
    /\ nRegYields = 0
    /\ yieldsEntered = 0
    /\ outputsTaken = 0

Init ==
    /\ RegInit
    /\ status = CREATED
    /\ inputCh = NewChan
    /\ outputCh = NewChan
    /\ function = NilFunction
    /\ fr = [i \in FrameIds |-> IdleFrame]
    /\ ctlPc = "init"
    /\ viaStart \in BOOLEAN
    /\ createErr = "none"
    /\ startErr = "none"
    /\ bodyPc = "none"
    /\ bodyErr = "none"
    /\ nOrph = 0
    /\ statusAtCreate = "none"
    /\ resumeCalls = << >>
    /\ resumeRets = << >>
    /\ lateYields = << >>
    /\ yieldCalls = << >>
    /\ yieldRets = << >>
    /\ bodyArgs = << >>
    /\ nSends = 0
    /\ pendErr = "none"
    /\ prevStatus = "none"
    /\ helperPc = "none"
    /\ helperCalls = << >>
    /\ helperRets = << >>
    /\ bodyResumeCalls = << >>
    /\ bodyResumeRets = << >>
    /\ ctl2Calls = << >>
    /\ ctl2Rets = << >>
    /\ takers = << >>


\* fr with frame i replaced by f; what a finished ownerless closure returned goes
\* to nobody, and only that it finished is kept
WithFrame(i, f) ==
    [fr EXCEPT ![i] = IF i \notin {Ctl, Ctl2, Body, Helper} /\ f.pc = "done"
                      THEN [IdleFrame EXCEPT !.pc = "done"]
                      ELSE f]

\* ------------------------------------------------- the Resume closure
\* a Resume without the CLOSED case
ResumeCheckIgnoresClosed(i) ==
    /\ fr[i].pc = "r_check"
    /\ fr' = WithFrame(i, [fr[i] EXCEPT !.pc = "r_recv"])
    /\ UNCHANGED <<status, prevStatus, chans, function, nOrph, nSends, ctlVars, bodyVars>>
    /\ UNCHANGED <<helperVars, regVars, twoVars>>

\* switch c.status { case CLOSED: return ErrCoroutineIsClosed; default: ... }
ResumeCheck(i) ==
    /\ fr[i].pc = "r_check"
    /\ fr' = WithFrame(i, IF status = CLOSED
                          THEN [fr[i] EXCEPT !.pc = "done", !.err = ErrCoroutineIsClosed]
                          ELSE [fr[i] EXCEPT !.pc = "r_recv"])
    /\ UNCHANGED <<status, prevStatus, chans, function, nOrph, nSends, ctlVars, bodyVars>>
    /\ UNCHANGED <<helperVars, regVars, twoVars>>

\* a Resume whose receive is not assigned to output
ResumeRecvDropsOutput(i) ==
    /\ fr[i].pc = "r_recv"
    /\ CanRecv(outputCh)
    /\ fr' = WithFrame(i, [fr[i] EXCEPT !.pc = "r_send", !.ops = @ + 1])
    /\ outputCh' = AfterRecv(outputCh)
    /\ UNCHANGED <<status, prevStatus, inputCh, function, nOrph, nSends, ctlVars, bodyVars>>
    /\ takers' = IF Len(outputCh.buf) > 0
                 THEN Append(takers, [in |-> fr[i].arg, out |-> Head(outputCh.buf)])
                 ELSE takers
    /\ UNCHANGED <<helperVars, regVars, ctl2Calls, ctl2Rets>>

\* a Resume that reads the output and leaves it in the channel
ResumeRecvLeavesOutput(i) ==
    /\ fr[i].pc = "r_recv"
    /\ CanRecv(outputCh)
    /\ fr' = WithFrame(i, [fr[i] EXCEPT !.pc = "r_send", !.got = RecvVal(outputCh),
                                        !.ops = @ + 1])
    /\ UNCHANGED <<status, prevStatus, chans, function, nOrph, nSends, ctlVars, bodyVars>>
    /\ takers' = IF Len(outputCh.buf) > 0
                 THEN Append(takers, [in |-> fr[i].arg, out |-> Head(outputCh.buf)])
                 ELSE takers
    /\ UNCHANGED <<helperVars, regVars, ctl2Calls, ctl2Rets>>

\* output = <-c.outputCh
ResumeRecv(i) ==
    /\ fr[i].pc = "r_recv"
    /\ CanRecv(outputCh)
    /\ fr' = WithFrame(i, [fr[i] EXCEPT !.pc = "r_send", !.got = RecvVal(outputCh),
                                        !.ops = @ + 1])
    /\ outputCh' = AfterRecv(outputCh)
    /\ UNCHANGED <<status, prevStatus, inputCh, function, nOrph, nSends, ctlVars, bodyVars>>
    /\ takers' = IF Len(outputCh.buf) > 0
                 THEN Append(takers, [in |-> fr[i].arg, out |-> Head(outputCh.buf)])
                 ELSE takers
    /\ UNCHANGED <<helperVars, regVars, ctl2Calls, ctl2Rets>>

\* c.inputCh <- input; a send on a closed channel panics, and safe.Do returns the panic
ResumeSend(i) ==
    /\ fr[i].pc = "r_send"
    /\ CanSend(inputCh)
    /\ IF inputCh.closed
       THEN /\ fr' = WithFrame(i, [fr[i] EXCEPT !.pc = "done", !.err = ErrSendOnClosed,
                                                !.ops = @ + 1])
            /\ UNCHANGED <<inputCh, nSends>>
       ELSE /\ fr' = WithFrame(i, [fr[i] EXCEPT !.pc = "done", !.err = NoErr,
                                                !.ops = @ + 1])
            /\ inputCh' = AfterSend(inputCh, fr[i].arg)
            /\ nSends' = nSends + 1
    /\ UNCHANGED <<status, prevStatus, outputCh, function, nOrph, ctlVars, bodyVars>>
    /\ UNCHANGED <<helperVars, regVars, twoVars>>

\* -------------------------------------------------- the Yield closure
\* a Yield without the CREATED case: the startup Yield marks the coroutine SUSPENDED
YieldCheckNoCreatedCase(i) ==
    /\ fr[i].pc = "y_check"
    /\ fr' = WithFrame(i,
              IF status = CLOSED
              THEN [fr[i] EXCEPT !.pc = "done", !.err = ErrCoroutineIsClosed]
              ELSE [fr[i] EXCEPT !.pc = "y_susp"])
    /\ UNCHANGED <<status, prevStatus, chans, function, nOrph, nSends, ctlVars, bodyVars>>
    /\ UNCHANGED <<helperVars, regVars, twoVars>>

\* switch c.status { case CLOSED: ...; case CREATED: ...; default: ... }
YieldCheck(i) ==
    /\ fr[i].pc = "y_check"
    /\ fr' = WithFrame(i,
              IF status = CLOSED
              THEN [fr[i] EXCEPT !.pc = "done",
                                 !.err = ErrCoroutineIsClosed]
              ELSE IF status = CREATED
              THEN [fr[i] EXCEPT !.pc = "y_send"]
              ELSE [fr[i] EXCEPT !.pc = "y_susp"])
    /\ UNCHANGED <<status, prevStatus, chans, function, nOrph, nSends, ctlVars, bodyVars>>
    /\ UNCHANGED <<helperVars, regVars, twoVars>>

\* c.status = SUSPENDED
YieldSuspend(i) ==
    /\ fr[i].pc = "y_susp"
    /\ SetStatus(SUSPENDED)
    /\ fr' = WithFrame(i, [fr[i] EXCEPT !.pc = "y_send"])
    /\ UNCHANGED <<chans, function, nOrph, nSends, ctlVars, bodyVars>>
    /\ UNCHANGED <<helperVars, regVars, twoVars>>

\* c.outputCh <- output
YieldSend(i) ==
    /\ fr[i].pc = "y_send"
    /\ CanSend(outputCh)
    /\ IF outputCh.closed
       THEN /\ fr' = WithFrame(i, [fr[i] EXCEPT !.pc = "done", !.err = ErrSendOnClosed,
                                                !.ops = @ + 1])
            /\ UNCHANGED outputCh
       ELSE /\ fr' = WithFrame(i, [fr[i] EXCEPT !.pc = "y_recv", !.ops = @ + 1])
            /\ outputCh' = AfterSend(outputCh, fr[i].arg)
    /\ UNCHANGED <<status, prevStatus, inputCh, function, nOrph, nSends, ctlVars, bodyVars>>
    /\ UNCHANGED <<helperVars, regVars, twoVars>>

\* a Yield that leaves the message it received in the channel
YieldRecvKeepsMessage(i) ==
    /\ fr[i].pc = "y_recv"
    /\ CanRecv(inputCh)
    /\ fr' = WithFrame(i, [fr[i] EXCEPT !.pc = "y_run", !.got = RecvVal(inputCh),
                                        !.ops = @ + 1])
    /\ UNCHANGED <<status, prevStatus, chans, function, nOrph, nSends, ctlVars, bodyVars>>
    /\ UNCHANGED <<helperVars, regVars, twoVars>>

\* input = <-c.inputCh
YieldRecv(i) ==
    /\ fr[i].pc = "y_recv"
    /\ CanRecv(inputCh)
    /\ fr' = WithFrame(i, [fr[i] EXCEPT !.pc = "y_run", !.got = RecvVal(inputCh),
                                        !.ops = @ + 1])
    /\ inputCh' = AfterRecv(inputCh)
    /\ UNCHANGED <<status, prevStatus, outputCh, function, nOrph, nSends, ctlVars, bodyVars>>
    /\ UNCHANGED <<helperVars, regVars, twoVars>>

\* c.status = RUNNING
YieldRun(i) ==
    /\ fr[i].pc = "y_run"
    /\ SetStatus(RUNNING)
    /\ fr' = WithFrame(i, [fr[i] EXCEPT !.pc = "done", !.err = NoErr])
    /\ UNCHANGED <<chans, function, nOrph, nSends, ctlVars, bodyVars>>
    /\ UNCHANGED <<helperVars, regVars, twoVars>>

\* --------------------------------------- the timed and cancellable calls
\* safe.DoWithTimeout / safe.DoWithContext return to the caller t when the timer
\* or the signal wins the race; the closure goes on without an owner.  The named
\* result the caller returns holds what the closure had assigned by then.
Abort(t) ==
    /\ t \in {Ctl, Body}
    /\ fr[t].mode # "plain"
    /\ fr[t].pc # "idle"
    /\ fr[t].err # ErrDeadline
    /\ nOrph < MaxOrphans
    /\ nOrph' = nOrph + 1
    /\ fr' = [fr EXCEPT ![Orph(nOrph + 1)] =
                            IF InFlight(fr[t]) THEN [fr[t] EXCEPT !.mode = "plain"] ELSE @,
                        ![t] = [fr[t] EXCEPT !.pc = "done", !.err = ErrDeadline]]
    /\ UNCHANGED <<status, prevStatus, chans, function, nSends, ctlVars, bodyVars>>
    /\ UNCHANGED <<helperVars, regVars, twoVars>>


\* ------------------------------------------------------ the controller
\* a Create that marks the coroutine CLOSED when the shape is not supported
CreateMarksUnsupported(s) ==
    /\ ctlPc = "init"
    /\ ~viaStart
    /\ IF s = Unsupported
       THEN /\ createErr' = ErrInvalidFunction
            /\ ctlPc' = "end"
            /\ SetStatus(CLOSED)
            /\ UNCHANGED <<function, bodyPc, statusAtCreate>>
       ELSE /\ function' = WrapCallable(s)
            /\ SetStatus(CREATED)
            /\ bodyPc' = "spawned"
            /\ createErr' = NoErr
            /\ statusAtCreate' = status'
            /\ ctlPc' = "ready"
    /\ UNCHANGED <<chans, fr, nOrph, nSends, viaStart, startErr, resumeCalls, resumeRets, lateYields,
                   bodyErr, yieldCalls, yieldRets, bodyArgs, pendErr>>
    /\ UNCHANGED <<helperVars, regVars, twoVars>>

\* Create(v): the type switch, c.status = CREATED, go safe.Do(...), return c, nil
Create(s) ==
    /\ ctlPc = "init"
    /\ ~viaStart
    /\ IF s = Unsupported
       THEN /\ createErr' = ErrInvalidFunction
            /\ ctlPc' = "end"
            /\ UNCHANGED <<status, prevStatus, function, bodyPc, statusAtCreate>>
       ELSE /\ function' = WrapCallable(s)
            /\ SetStatus(CREATED)
            /\ bodyPc' = "spawned"
            /\ createErr' = NoErr
            /\ statusAtCreate' = status'
            /\ ctlPc' = "ready"
    /\ UNCHANGED <<chans, fr, nOrph, nSends, viaStart, startErr, resumeCalls, resumeRets, lateYields,
                   bodyErr, yieldCalls, yieldRets, bodyArgs, pendErr>>
    /\ UNCHANGED <<helperVars, regVars, twoVars>>

\* Start(v): Create(v); on its error return it; else _, err = c.Resume(nil)
Start(s) ==
    /\ ctlPc = "init"
    /\ viaStart
    /\ IF s = Unsupported
       THEN /\ createErr' = ErrInvalidFunction
            /\ startErr' = ErrInvalidFunction
            /\ ctlPc' = "end"
            /\ UNCHANGED <<status, prevStatus, function, bodyPc, statusAtCreate, fr, resumeCalls>>
       ELSE /\ function' = WrapCallable(s)
            /\ SetStatus(CREATED)
            /\ bodyPc' = "spawned"
            /\ createErr' = NoErr
            /\ statusAtCreate' = status'
            /\ fr' = WithFrame(Ctl, NewFrame("resume", "plain", <<NilVal>>, FALSE))
            /\ resumeCalls' = Append(resumeCalls,
                   [in |-> <<NilVal>>, afterDeadline |-> FALSE])
            /\ ctlPc' = "calling"
            /\ UNCHANGED startErr
    /\ UNCHANGED <<chans, nOrph, nSends, viaStart, resumeRets, lateYields,
                   bodyErr, yieldCalls, yieldRets, bodyArgs, pendErr>>
    /\ UNCHANGED <<helperVars, regVars, twoVars>>

\* some call the controller was given back failed with the deadline error
DeadlineFailed ==
    \/ \E k \in 1..Len(resumeRets) : resumeRets[k].err = ErrDeadline
    \/ \E k \in 1..Len(yieldRets) : yieldRets[k].err = ErrDeadline

\* the controller calls c.Resume, c.ResumeWithTimeout or c.ResumeWithContext
CtlResume(mode, in) ==
    /\ ctlPc = "ready"
    /\ Len(resumeCalls) + Len(lateYields) < MaxResumes
    /\ mode # "plain" => nOrph < MaxOrphans
    /\ fr' = WithFrame(Ctl, NewFrame("resume", mode, in, status = CLOSED))
    /\ resumeCalls' = Append(resumeCalls, [in |-> in, afterDeadline |-> DeadlineFailed])
    /\ ctlPc' = "calling"
    /\ UNCHANGED <<status, prevStatus, chans, function, nOrph, nSends, viaStart, createErr,
                   startErr, statusAtCreate, resumeRets, lateYields, bodyVars>>
    /\ UNCHANGED <<helperVars, regVars, twoVars>>

\* once the body task has closed the coroutine it calls Yield no more; a task that
\* still holds the Handle calls c.Yield
CtlYield(out) ==
    /\ ctlPc = "ready"
    /\ status = CLOSED
    /\ Len(resumeCalls) + Len(lateYields) < MaxResumes
    /\ fr' = WithFrame(Ctl, NewFrame("yield", "plain", out, TRUE))
    /\ ctlPc' = "calling"
    /\ UNCHANGED <<status, prevStatus, chans, function, nOrph, nSends, viaStart, createErr,
                   startErr, statusAtCreate, resumeCalls, resumeRets, lateYields, bodyVars>>
    /\ UNCHANGED <<helperVars, regVars, twoVars>>

\* the call returns (output, err) to the controller; Start returns err
CtlReturn ==
    /\ ctlPc = "calling"
    /\ fr[Ctl].pc = "done"
    /\ IF fr[Ctl].kind = "resume"
       THEN /\ resumeRets' = Append(resumeRets,
                   [out |-> fr[Ctl].got, err |-> fr[Ctl].err, bodyErr |-> pendErr])
            /\ UNCHANGED lateYields
       ELSE /\ lateYields' = Append(lateYields, [in |-> fr[Ctl].got, err |-> fr[Ctl].err])
            /\ UNCHANGED resumeRets
    /\ pendErr' = "none"
    /\ fr' = WithFrame(Ctl, IdleFrame)
    /\ ctlPc' = IF viaStart THEN "end" ELSE "ready"
    /\ startErr' = IF viaStart THEN fr[Ctl].err ELSE startErr
    /\ UNCHANGED <<status, prevStatus, chans, function, nOrph, nSends, viaStart, createErr,
                   statusAtCreate, resumeCalls, bodyPc, bodyErr, yieldCalls, yieldRets,
                   bodyArgs>>
    /\ UNCHANGED <<helperVars, regVars, twoVars>>

\* -------------------------------------------------------- the body task
\* the spawned closure starts: input, err := c.Yield()
BodyBegin ==
    /\ bodyPc = "spawned"
    /\ fr' = WithFrame(Body, NewFrame("yield", "plain", NilSlice, FALSE))
    /\ bodyPc' = "starting"
    /\ UNCHANGED <<status, prevStatus, chans, function, nOrph, nSends, ctlVars,
                   bodyErr, yieldCalls, yieldRets, bodyArgs, pendErr>>
    /\ UNCHANGED <<helperVars, regVars, twoVars>>

\* if err != nil { return err }; return c.function(c, input...)
BodyEnter ==
    /\ bodyPc = "starting"
    /\ fr[Body].pc = "done"
    /\ IF fr[Body].err # NoErr
       THEN /\ bodyErr' = fr[Body].err
            /\ bodyPc' = "defer1"
            /\ UNCHANGED bodyArgs
       ELSE /\ bodyArgs' = Append(bodyArgs, fr[Body].got)
            /\ bodyPc' = "user"
            /\ UNCHANGED bodyErr
    /\ fr' = WithFrame(Body, IdleFrame)
    /\ UNCHANGED <<status, prevStatus, chans, function, nOrph, nSends, ctlVars,
                   yieldCalls, yieldRets, pendErr>>
    /\ UNCHANGED <<helperVars, regVars, twoVars>>

\* the entry point calls c.Yield, c.YieldWithTimeout or c.YieldWithContext
BodyYield(mode, out) ==
    /\ bodyPc = "user"
    /\ function.handle
    /\ Len(yieldCalls) < MaxYields
    /\ mode # "plain" => nOrph < MaxOrphans
    /\ fr' = WithFrame(Body, NewFrame("yield", mode, out, FALSE))
    /\ yieldCalls' = Append(yieldCalls, out)
    /\ bodyPc' = "yielding"
    /\ UNCHANGED <<status, prevStatus, chans, function, nOrph, nSends, ctlVars,
                   bodyErr, yieldRets, bodyArgs, pendErr>>
    /\ UNCHANGED <<helperVars, regVars, twoVars>>

\* the call returns (input, err) to the entry point
BodyYieldReturn ==
    /\ bodyPc = "yielding"
    /\ fr[Body].pc = "done"
    /\ yieldRets' = Append(yieldRets,
           [in |-> fr[Body].got, err |-> fr[Body].err])
    /\ fr' = WithFrame(Body, IdleFrame)
    /\ bodyPc' = "user"
    /\ UNCHANGED <<status, prevStatus, chans, function, nOrph, nSends, ctlVars,
                   bodyErr, yieldCalls, bodyArgs, pendErr>>
    /\ UNCHANGED <<helperVars, regVars, twoVars>>

\* what c.function f can end with: nil, an error of its own, a panic
BodyResults(f) == {NoErr, ErrBodyPanic} \cup (IF f.err THEN {ErrApp} ELSE {})

\* the entry point returns e, or panics; the closure's deferred function runs next
BodyReturn(e) ==
    /\ bodyPc = "user"
    /\ e \in BodyResults(function)
    /\ bodyErr' = e
    /\ bodyPc' = "defer1"
    /\ pendErr' = IF fr[Ctl].pc = "r_recv" THEN e ELSE pendErr
    /\ UNCHANGED <<status, prevStatus, chans, function, fr, nOrph, nSends, ctlVars,
                   yieldCalls, yieldRets, bodyArgs>>
    /\ UNCHANGED <<helperVars, regVars, twoVars>>

\* defer: c.status = CLOSED
BodyDeferStatus ==
    /\ bodyPc = "defer1"
    /\ SetStatus(CLOSED)
    /\ bodyPc' = "defer2"
    /\ UNCHANGED <<chans, function, fr, nOrph, nSends, ctlVars,
                   bodyErr, yieldCalls, yieldRets, bodyArgs, pendErr>>
    /\ UNCHANGED <<helperVars, regVars, twoVars>>

\* defer: close(c.inputCh)
BodyDeferCloseInput ==
    /\ bodyPc = "defer2"
    /\ inputCh' = [inputCh EXCEPT !.closed = TRUE]
    /\ bodyPc' = "defer3"
    /\ UNCHANGED <<status, prevStatus, outputCh, function, fr, nOrph, nSends, ctlVars,
                   bodyErr, yieldCalls, yieldRets, bodyArgs, pendErr>>
    /\ UNCHANGED <<helperVars, regVars, twoVars>>

\* a deferred function that leaves c.outputCh open
BodyDeferLeavesOutputOpen ==
    /\ bodyPc = "defer3"
    /\ bodyPc' = "closed"
    /\ UNCHANGED <<status, prevStatus, chans, function, fr, nOrph, nSends, ctlVars,
                   bodyErr, yieldCalls, yieldRets, bodyArgs, pendErr>>
    /\ UNCHANGED <<helperVars, regVars, twoVars>>

\* defer: close(c.outputCh); the error of the closure goes to nobody (go safe.Do)
BodyDeferCloseOutput ==
    /\ bodyPc = "defer3"
    /\ outputCh' = [outputCh EXCEPT !.closed = TRUE]
    /\ bodyPc' = "closed"
    /\ UNCHANGED <<status, prevStatus, inputCh, function, fr, nOrph, nSends, ctlVars,
                   bodyErr, yieldCalls, yieldRets, bodyArgs, pendErr>>
    /\ UNCHANGED <<helperVars, regVars, twoVars>>

\* ------------------------------------ the entry point as a controller
\* the entry point: go safe.Do(func() error { ... co.Yield(o) ... })
BodySpawnHelper ==
    /\ bodyPc = "user"
    /\ function.handle
    /\ helperPc = "none"
    /\ helperPc' = "spawned"
    /\ bodyPc' = "user_go"
    /\ UNCHANGED <<status, prevStatus, chans, function, fr, nOrph, nSends, ctlVars,
                   bodyErr, yieldCalls, yieldRets, bodyArgs, pendErr,
                   helperCalls, helperRets, bodyResumeCalls, bodyResumeRets>>
    /\ UNCHANGED <<regVars, twoVars>>

\* the spawned task calls co.Yield(o)
HelperYield(out) ==
    /\ helperPc = "spawned"
    /\ fr' = WithFrame(Helper, NewFrame("yield", "plain", out, status = CLOSED))
    /\ helperCalls' = Append(helperCalls, out)
    /\ helperPc' = "calling"
    /\ UNCHANGED <<status, prevStatus, chans, function, nOrph, nSends, ctlVars, bodyVars,
                   helperRets, bodyResumeCalls, bodyResumeRets>>
    /\ UNCHANGED <<regVars, twoVars>>

\* its Yield returns (input, err), and the task ends
HelperReturn ==
    /\ helperPc = "calling"
    /\ fr[Helper].pc = "done"
    /\ helperRets' = Append(helperRets, [in |-> fr[Helper].got, err |-> fr[Helper].err])
    /\ fr' = WithFrame(Helper, IdleFrame)
    /\ helperPc' = "done"
    /\ UNCHANGED <<status, prevStatus, chans, function, nOrph, nSends, ctlVars, bodyVars,
                   helperCalls, bodyResumeCalls, bodyResumeRets>>
    /\ UNCHANGED <<regVars, twoVars>>

\* the entry point calls co.Resume(i) on its own Handle
BodyResume(in) ==
    /\ bodyPc = "user_go"
    /\ fr' = WithFrame(Body, NewFrame("resume", "plain", in, status = CLOSED))
    /\ bodyResumeCalls' = Append(bodyResumeCalls, in)
    /\ bodyPc' = "resuming"
    /\ UNCHANGED <<status, prevStatus, chans, function, nOrph, nSends, ctlVars,
                   bodyErr, yieldCalls, yieldRets, bodyArgs, pendErr,
                   helperPc, helperCalls, helperRets, bodyResumeRets>>
    /\ UNCHANGED <<regVars, twoVars>>

\* that Resume returns (output, err) to the entry point
BodyResumeReturn ==
    /\ bodyPc = "resuming"
    /\ fr[Body].pc = "done"
    /\ bodyResumeRets' = Append(bodyResumeRets, [out |-> fr[Body].got, err |-> fr[Body].err])
    /\ fr' = WithFrame(Body, IdleFrame)
    /\ bodyPc' = "user"
    /\ UNCHANGED <<status, prevStatus, chans, function, nOrph, nSends, ctlVars,
                   bodyErr, yieldCalls, yieldRets, bodyArgs, pendErr,
                   helperPc, helperCalls, helperRets, bodyResumeCalls>>
    /\ UNCHANGED <<regVars, twoVars>>

\* ------------------------------------------------ a second controller
\* a second task calls c.Resume on the Handle Create returned
Ctl2Resume(in) ==
    /\ createErr = NoErr
    /\ fr[Ctl2].pc = "idle"
    /\ Len(ctl2Calls) < MaxResumes2
    /\ fr' = WithFrame(Ctl2, NewFrame("resume", "plain", in, status = CLOSED))
    /\ ctl2Calls' = Append(ctl2Calls, in)
    /\ UNCHANGED <<status, prevStatus, chans, function, nOrph, nSends, ctlVars, bodyVars,
                   ctl2Rets, takers>>
    /\ UNCHANGED <<helperVars, regVars>>

\* the call returns (output, err) to the second task
Ctl2Return ==
    /\ fr[Ctl2].pc = "done"
    /\ ctl2Rets' = Append(ctl2Rets, [out |-> fr[Ctl2].got, err |-> fr[Ctl2].err])
    /\ fr' = WithFrame(Ctl2, IdleFrame)
    /\ UNCHANGED <<status, prevStatus, chans, function, nOrph, nSends, ctlVars, bodyVars,
                   ctl2Calls, takers>>
    /\ UNCHANGED <<helperVars, regVars>>

\* ======================================================================
\* The registry variant
\* ======================================================================
regCounters == <<nRegCalls, nRegYields, yieldsEntered, outputsTaken>>

\* Wrap(fn): a fresh identifier, a Coroutine with status Created, stored
Wrap ==
    /\ call.pc = "none"
    /\ coroutines' = coroutines \cup {ID1}
    /\ regStatus' = Created
    /\ call' = [call EXCEPT !.pc = "wrapped"]
    /\ UNCHANGED <<inCh, outCh, mutexResume, rf, obs, regCounters>>
    /\ UNCHANGED handleVars

\* Create(fn): Wrap of a function that first calls Yield(id), then go Call(id)
RegCreate ==
    /\ call.pc = "none"
    /\ coroutines' = coroutines \cup {ID1}
    /\ regStatus' = Created
    /\ call' = [call EXCEPT !.pc = "c_run", !.startup = TRUE]
    /\ UNCHANGED <<inCh, outCh, mutexResume, rf, obs, regCounters>>
    /\ UNCHANGED handleVars

\* Call(id, args...) on the wrapped identifier: c := findCoroutine(id)
Call ==
    /\ call.pc = "wrapped"
    /\ ID1 \in coroutines
    /\ call' = [call EXCEPT !.pc = "c_run"]
    /\ UNCHANGED <<coroutines, regStatus, inCh, outCh, mutexResume, rf, obs, regCounters>>
    /\ UNCHANGED handleVars

\* c.writeSyncStatus(Running); then c.fn(id, args...) begins: the function Create
\* wrapped calls Yield(id) first
CallRun ==
    /\ call.pc = "c_run"
    /\ regStatus' = Running
    /\ call' = [call EXCEPT !.pc = IF call.startup THEN "y_susp" ELSE "user"]
    /\ UNCHANGED <<coroutines, inCh, outCh, mutexResume, rf, obs, regCounters>>
    /\ UNCHANGED handleVars

\* the body calls Yield(id, outData...)
RegYield(out) ==
    /\ call.pc = "user"
    /\ nRegYields < MaxRegYields
    /\ nRegYields' = nRegYields + 1
    /\ call' = [call EXCEPT !.pc = "y_susp", !.out = out]
    /\ UNCHANGED <<coroutines, regStatus, inCh, outCh, mutexResume, rf, obs,
                   nRegCalls, yieldsEntered, outputsTaken>>
    /\ UNCHANGED handleVars

\* Yield: c := findCoroutine(id); c.writeSyncStatus(Suspended)
RegYieldSuspend ==
    /\ call.pc = "y_susp"
    /\ regStatus' = Suspended
    /\ yieldsEntered' = yieldsEntered + 1
    /\ call' = [call EXCEPT !.pc = "y_send"]
    /\ UNCHANGED <<coroutines, inCh, outCh, mutexResume, rf, obs,
                   nRegCalls, nRegYields, outputsTaken>>
    /\ UNCHANGED handleVars

\* yield: case c.outCh <- outData
RegYieldSend ==
    /\ call.pc = "y_send"
    /\ Len(outCh) < ChanCap
    /\ outCh' = Append(outCh, call.out)
    /\ call' = [call EXCEPT !.pc = "y_recv"]
    /\ UNCHANGED <<coroutines, regStatus, inCh, mutexResume, rf, obs, regCounters>>
    /\ UNCHANGED handleVars

\* yield: case inData = <-c.inCh
RegYieldRecv ==
    /\ call.pc = "y_recv"
    /\ Len(inCh) > 0
    /\ inCh' = Tail(inCh)
    /\ call' = [call EXCEPT !.pc = "y_run", !.got = Head(inCh)]
    /\ UNCHANGED <<coroutines, regStatus, outCh, mutexResume, rf, obs, regCounters>>
    /\ UNCHANGED handleVars

\* yield: case <-time.After(expire): c.writeSyncStatus(Dead); panic(...).  The
\* timer can win only while the channel operation cannot be done.  The panic
\* unwinds to the deferred functions of Call.
RegYieldTimeout ==
    /\ \/ call.pc = "y_send" /\ Len(outCh) >= ChanCap
       \/ call.pc = "y_recv" /\ Len(inCh) = 0
    /\ regStatus' = Dead
    /\ call' = [call EXCEPT !.pc = "c_delete", !.err = ErrSuspendedTimeout]
    /\ UNCHANGED <<coroutines, inCh, outCh, mutexResume, rf, obs, regCounters>>
    /\ UNCHANGED handleVars

\* Yield: c.writeSyncStatus(Running); return inData
RegYieldRun ==
    /\ call.pc = "y_run"
    /\ regStatus' = Running
    /\ call' = [call EXCEPT !.pc = "user"]
    /\ UNCHANGED <<coroutines, inCh, outCh, mutexResume, rf, obs, regCounters>>
    /\ UNCHANGED handleVars

\* c.fn returns nil or an error, or panics
RegBodyReturn(e) ==
    /\ call.pc = "user"
    /\ call' = [call EXCEPT !.pc = "c_delete", !.err = e]
    /\ UNCHANGED <<coroutines, regStatus, inCh, outCh, mutexResume, rf, obs, regCounters>>
    /\ UNCHANGED handleVars

\* the deferred functions of Call: coroutines.Delete(id), then recover; Call returns
CallDelete ==
    /\ call.pc = "c_delete"
    /\ coroutines' = coroutines \ {ID1}
    /\ call' = [call EXCEPT !.pc = "done"]
    /\ UNCHANGED <<regStatus, inCh, outCh, mutexResume, rf, obs, regCounters>>
    /\ UNCHANGED handleVars

\* the call of task r is over: what is kept of it is its kind, the status it
\* read, how many channel operations it did, its result and its signal
Finished(f) == [f EXCEPT !.pc = "done", !.id = ID1, !.arg = NilSlice, !.got = NilSlice]

\* a task calls Resume, TryResume or AsyncResume (whose goroutine it is); the
\* second task is used when the first is busy
RegResume(r, kind, id, in) ==
    /\ rf[r].pc \in {"idle", "done"}
    /\ r = Res2 => rf[Res1].pc \notin {"idle", "done"}
    /\ nRegCalls < MaxRegCalls
    /\ id = ID1 => call.pc # "none"
    /\ nRegCalls' = nRegCalls + 1
    /\ rf' = [rf EXCEPT ![r] = [IdleRes EXCEPT !.pc = "r_find", !.kind = kind,
                                               !.id = id, !.arg = in]]
    /\ UNCHANGED <<coroutines, regStatus, inCh, outCh, mutexResume, call, obs,
                   nRegYields, yieldsEntered, outputsTaken>>
    /\ UNCHANGED handleVars

\* c := findCoroutine(id): panics when the identifier is not stored.  Resume and
\* TryResume pass the panic to their caller; the goroutine of AsyncResume
\* recovers it.
ResFind(r) ==
    /\ rf[r].pc = "r_find"
    /\ rf' = [rf EXCEPT ![r] =
                IF rf[r].id \in coroutines
                THEN [@ EXCEPT !.pc = "r_lock"]
                ELSE IF rf[r].kind = "AsyncResume"
                     THEN [@ EXCEPT !.ret = ErrMissing, !.pc = "r_recover"]
                     ELSE Finished([@ EXCEPT !.ret = ErrMissing])]
    /\ UNCHANGED <<coroutines, regStatus, inCh, outCh, mutexResume, call, obs, regCounters>>
    /\ UNCHANGED handleVars

\* a resume that does not take the lock
ResLockSkipped(r) ==
    /\ rf[r].pc = "r_lock"
    /\ rf' = [rf EXCEPT ![r].pc = "r_check"]
    /\ UNCHANGED <<coroutines, regStatus, inCh, outCh, mutexResume, call, obs, regCounters>>
    /\ UNCHANGED handleVars

\* c.mutexResume.Lock(); defer c.mutexResume.Unlock()
ResLock(r) ==
    /\ rf[r].pc = "r_lock"
    /\ mutexResume = Free
    /\ mutexResume' = r
    /\ rf' = [rf EXCEPT ![r].pc = "r_check"]
    /\ UNCHANGED <<coroutines, regStatus, inCh, outCh, call, obs, regCounters>>
    /\ UNCHANGED handleVars

\* what the status test of each kind of resume does with the status it read
AfterCheck(f, st) ==
    IF f.kind = "TryResume"
    THEN IF st # Suspended THEN [f EXCEPT !.seen = st, !.pc = "r_unlock", !.ret = "notok"]
                           ELSE [f EXCEPT !.seen = st, !.pc = "r_recv"]
    ELSE IF st = Dead
         THEN [f EXCEPT !.seen = st, !.pc = "r_unlock",
                        !.ret = IF f.kind = "Resume" THEN "notok" ELSE ErrDead]
         ELSE [f EXCEPT !.seen = st, !.pc = "r_recv"]

\* if c.readSyncStatus() == Dead / != Suspended { return nil, false } (panic, in AsyncResume)
ResCheck(r) ==
    /\ rf[r].pc = "r_check"
    /\ rf' = [rf EXCEPT ![r] = AfterCheck(rf[r], regStatus)]
    /\ UNCHANGED <<coroutines, regStatus, inCh, outCh, mutexResume, call, obs, regCounters>>
    /\ UNCHANGED handleVars

\* resume: case outData = <-c.outCh
ResRecv(r) ==
    /\ rf[r].pc = "r_recv"
    /\ Len(outCh) > 0
    /\ outCh' = Tail(outCh)
    /\ outputsTaken' = outputsTaken + 1
    /\ rf' = [rf EXCEPT ![r] = [@ EXCEPT !.pc = "r_send", !.got = Head(outCh),
                                         !.ops = @ + 1]]
    /\ UNCHANGED <<coroutines, regStatus, inCh, mutexResume, call, obs,
                   nRegCalls, nRegYields, yieldsEntered>>
    /\ UNCHANGED handleVars

\* resume: case c.inCh <- inData; then Resume and TryResume return (outData, true),
\* and AsyncResume calls fn(outData...)
ResSend(r) ==
    /\ rf[r].pc = "r_send"
    /\ Len(inCh) < ChanCap
    /\ inCh' = Append(inCh, rf[r].arg)
    /\ rf' = [rf EXCEPT ![r] =
                IF rf[r].kind = "AsyncResume"
                THEN [@ EXCEPT !.pc = "r_callback", !.ops = @ + 1]
                ELSE [@ EXCEPT !.pc = "r_unlock", !.ops = @ + 1, !.ret = "ok"]]
    /\ UNCHANGED <<coroutines, regStatus, outCh, mutexResume, call, obs, regCounters>>
    /\ UNCHANGED handleVars

\* resume: case <-time.After(expire): panic(...); the timer can win only while
\* the channel operation cannot be done.  What was received stays in the local
\* outData and is not returned.
ResTimeout(r) ==
    /\ \/ rf[r].pc = "r_recv" /\ Len(outCh) = 0
       \/ rf[r].pc = "r_send" /\ Len(inCh) >= ChanCap
    /\ rf' = [rf EXCEPT ![r] = [@ EXCEPT !.pc = "r_unlock", !.ret = ErrSuspendedTimeout]]
    /\ UNCHANGED <<coroutines, regStatus, inCh, outCh, mutexResume, call, obs, regCounters>>
    /\ UNCHANGED handleVars

\* AsyncResume: fn(outData...) returns, or panics
ResCallback(r, fails) ==
    /\ rf[r].pc = "r_callback"
    /\ rf' = [rf EXCEPT ![r] = [@ EXCEPT !.pc = "r_unlock",
                                         !.ret = IF fails THEN ErrCallback ELSE "ok"]]
    /\ UNCHANGED <<coroutines, regStatus, inCh, outCh, mutexResume, call, obs, regCounters>>
    /\ UNCHANGED handleVars

\* the deferred c.mutexResume.Unlock(), on a return and on a panic
ResUnlock(r) ==
    /\ rf[r].pc = "r_unlock"
    /\ mutexResume' = IF mutexResume = r THEN Free ELSE mutexResume
    /\ rf' = [rf EXCEPT ![r] = IF rf[r].kind = "AsyncResume" /\ rf[r].ret # "ok"
                                THEN [@ EXCEPT !.pc = "r_recover"]
                                ELSE Finished(@)]
    /\ UNCHANGED <<coroutines, regStatus, inCh, outCh, call, obs, regCounters>>
    /\ UNCHANGED handleVars

\* an AsyncResume that reports nothing when it fails
ResRecoverSilent(r) ==
    /\ rf[r].pc = "r_recover"
    /\ rf' = [rf EXCEPT ![r] = Finished(@)]
    /\ UNCHANGED <<coroutines, regStatus, inCh, outCh, mutexResume, call, obs, regCounters>>
    /\ UNCHANGED handleVars

\* AsyncResume: if v := recover(); v != nil { errCh <- cast.ToError(v) }; errCh
\* has a buffer of one
ResRecover(r) ==
    /\ rf[r].pc = "r_recover"
    /\ rf[r].errCh < ChanCap
    /\ rf' = [rf EXCEPT ![r] = Finished([@ EXCEPT !.errCh = @ + 1])]
    /\ UNCHANGED <<coroutines, regStatus, inCh, outCh, mutexResume, call, obs, regCounters>>
    /\ UNCHANGED handleVars

\* a Status that reports the status of the Coroutine it loaded, whatever it is
StatusLoadAlways(id) ==
    /\ obs.pc \in {"idle", "done"}
    /\ obs' = [pc |-> "loaded", id |-> id, late |-> call.pc = "done", ret |-> "none"]
    /\ UNCHANGED <<coroutines, regStatus, inCh, outCh, mutexResume, call, rf, regCounters>>
    /\ UNCHANGED handleVars

\* Status(id): v, ok := coroutines.Load(id); if !ok { return Dead }
StatusLoad(id) ==
    /\ obs.pc \in {"idle", "done"}
    /\ obs' = IF id \in coroutines
              THEN [pc |-> "loaded", id |-> id, late |-> call.pc = "done", ret |-> "none"]
              ELSE [pc |-> "done", id |-> id, late |-> call.pc = "done", ret |-> Dead]
    /\ UNCHANGED <<coroutines, regStatus, inCh, outCh, mutexResume, call, rf, regCounters>>
    /\ UNCHANGED handleVars

\* Status(id): return c.readSyncStatus()
StatusRead ==
    /\ obs.pc = "loaded"
    /\ obs' = [obs EXCEPT !.pc = "done", !.ret = regStatus]
    /\ UNCHANGED <<coroutines, regStatus, inCh, outCh, mutexResume, call, rf, regCounters>>
    /\ UNCHANGED handleVars

\* ------------------------------------------------------ specification
\* every call is a plain Resume or Yield
Next ==
    \/ \E s \in Shapes \cup {Unsupported} : Create(s)
    \/ \E s \in Shapes \cup {Unsupported} : Start(s)
    \/ \E in \in Msgs : CtlResume("plain", in)
    \/ \E out \in Msgs : CtlYield(out)
    \/ CtlReturn
    \/ BodyBegin
    \/ BodyEnter
    \/ \E out \in Msgs : BodyYield("plain", out)
    \/ BodyYieldReturn
    \/ \E e \in {NoErr, ErrApp, ErrBodyPanic} : BodyReturn(e)
    \/ BodyDeferStatus
    \/ BodyDeferCloseInput
    \/ BodyDeferCloseOutput
    \/ \E i \in {Ctl} : ResumeCheck(i)
    \/ \E i \in {Ctl} : ResumeRecv(i)
    \/ \E i \in {Ctl} : ResumeSend(i)
    \/ \E i \in {Ctl, Body} : YieldCheck(i)
    \/ \E i \in {Ctl, Body} : YieldSuspend(i)
    \/ \E i \in {Ctl, Body} : YieldSend(i)
    \/ \E i \in {Ctl, Body} : YieldRecv(i)
    \/ \E i \in {Ctl, Body} : YieldRun(i)

Spec == Init /\ [][Next]_vars

\* Start launches a body whose entry point spawns a task that calls Yield on
\* the body's Handle, calls Resume on that Handle itself, and returns
InitHelper == Init /\ viaStart

NextHelper ==
    \/ \E s \in Shapes \cup {Unsupported} : Start(s)
    \/ CtlReturn
    \/ BodyBegin
    \/ BodyEnter
    \/ BodySpawnHelper
    \/ \E out \in Msgs : HelperYield(out)
    \/ HelperReturn
    \/ \E in \in Msgs : BodyResume(in)
    \/ BodyResumeReturn
    \/ \E e \in {NoErr, ErrApp, ErrBodyPanic} : BodyReturn(e)
    \/ BodyDeferStatus
    \/ BodyDeferCloseInput
    \/ BodyDeferCloseOutput
    \/ \E i \in {Ctl, Body} : ResumeCheck(i)
    \/ \E i \in {Ctl, Body} : ResumeRecv(i)
    \/ \E i \in {Ctl, Body} : ResumeSend(i)
    \/ \E i \in {Body, Helper} : YieldCheck(i)
    \/ \E i \in {Body, Helper} : YieldSuspend(i)
    \/ \E i \in {Body, Helper} : YieldSend(i)
    \/ \E i \in {Body, Helper} : YieldRecv(i)
    \/ \E i \in {Body, Helper} : YieldRun(i)

SpecHelper == InitHelper /\ [][NextHelper]_vars

\* the registry variant: one wrapped coroutine, the tasks that resume it, and a
\* task that reads its status
InitReg == Init /\ ~viaStart

NextReg ==
    \/ Wrap
    \/ RegCreate
    \/ Call
    \/ CallRun
    \/ \E out \in RegMsgs : RegYield(out)
    \/ RegYieldSuspend
    \/ RegYieldSend
    \/ RegYieldRecv
    \/ RegYieldTimeout
    \/ RegYieldRun
    \/ \E e \in {NoErr, ErrApp, ErrBodyPanic} : RegBodyReturn(e)
    \/ CallDelete
    \/ \E r \in Res, k \in Kinds, id \in IDs, in \in RegMsgs : RegResume(r, k, id, in)
    \/ \E r \in Res : ResFind(r)
    \/ \E r \in Res : ResLock(r)
    \/ \E r \in Res : ResCheck(r)
    \/ \E r \in Res : ResRecv(r)
    \/ \E r \in Res : ResSend(r)
    \/ \E r \in Res : ResTimeout(r)
    \/ \E r \in Res, fails \in BOOLEAN : ResCallback(r, fails)
    \/ \E r \in Res : ResUnlock(r)
    \/ \E r \in Res : ResRecover(r)

SpecReg == InitReg /\ [][NextReg]_vars

\* the registry variant with one task that resumes and one that calls Status
NextStatus ==
    \/ Wrap
    \/ RegCreate
    \/ Call
    \/ CallRun
    \/ \E out \in RegMsgs : RegYield(out)
    \/ RegYieldSuspend
    \/ RegYieldSend
    \/ RegYieldRecv
    \/ RegYieldTimeout
    \/ RegYieldRun
    \/ \E e \in {NoErr, ErrApp, ErrBodyPanic} : RegBodyReturn(e)
    \/ CallDelete
    \/ \E k \in Kinds, id \in IDs, in \in RegMsgs : RegResume(Res1, k, id, in)
    \/ ResFind(Res1)
    \/ ResLock(Res1)
    \/ ResCheck(Res1)
    \/ ResRecv(Res1)
    \/ ResSend(Res1)
    \/ ResTimeout(Res1)
    \/ \E fails \in BOOLEAN : ResCallback(Res1, fails)
    \/ ResUnlock(Res1)
    \/ ResRecover(Res1)
    \/ \E id \in IDs : StatusLoad(id)
    \/ StatusRead

SpecStatus == InitReg /\ [][NextStatus]_vars

\* two controller tasks call plain Resume on one Handle made by Create
InitTwo == Init /\ ~viaStart

NextTwo ==
    \/ \E s \in Shapes \cup {Unsupported} : Create(s)
    \/ \E in \in In1 : CtlResume("plain", in)
    \/ CtlReturn
    \/ \E in \in In2 : Ctl2Resume(in)
    \/ Ctl2Return
    \/ BodyBegin
    \/ BodyEnter
    \/ \E out \in Msgs : BodyYield("plain", out)
    \/ BodyYieldReturn
    \/ \E e \in {NoErr, ErrApp, ErrBodyPanic} : BodyReturn(e)
    \/ BodyDeferStatus
    \/ BodyDeferCloseInput
    \/ BodyDeferCloseOutput
    \/ \E i \in {Ctl, Ctl2} : ResumeCheck(i)
    \/ \E i \in {Ctl, Ctl2} : ResumeRecv(i)
    \/ \E i \in {Ctl, Ctl2} : ResumeSend(i)
    \/ YieldCheck(Body)
    \/ YieldSuspend(Body)
    \/ YieldSend(Body)
    \/ YieldRecv(Body)
    \/ YieldRun(Body)

SpecTwo == InitTwo /\ [][NextTwo]_vars

\* where every task stands; each step of a task moves it
pcs == <<fr, ctlPc, bodyPc>>

\* Every task is a goroutine the scheduler keeps running: a step that stays
\* possible is taken.  What the controller and the entry point choose to call,
\* and whether the entry point ever returns, is left to them.
Fairness ==
    /\ WF_pcs(CtlReturn)
    /\ WF_pcs(BodyBegin)
    /\ WF_pcs(BodyEnter)
    /\ WF_pcs(BodyYieldReturn)
    /\ WF_pcs(BodyDeferStatus)
    /\ WF_pcs(BodyDeferCloseInput)
    /\ WF_pcs(BodyDeferCloseOutput)
    /\ \A i \in {Ctl, Body} :
          /\ WF_pcs(ResumeCheck(i))
          /\ WF_pcs(ResumeRecv(i))
          /\ WF_pcs(ResumeSend(i))
          /\ WF_pcs(YieldCheck(i))
          /\ WF_pcs(YieldSuspend(i))
          /\ WF_pcs(YieldSend(i))
          /\ WF_pcs(YieldRecv(i))
          /\ WF_pcs(YieldRun(i))

SpecLive == Init /\ [][Next]_vars /\ Fairness

\* the calls may also be timed or cancellable, and may lose their race
NextTimed ==
    \/ \E s \in Shapes \cup {Unsupported} : Create(s)
    \/ \E s \in Shapes \cup {Unsupported} : Start(s)
    \/ \E m \in Modes, in \in TimedMsgs : CtlResume(m, in)
    \/ \E out \in TimedMsgs : CtlYield(out)
    \/ CtlReturn
    \/ BodyBegin
    \/ BodyEnter
    \/ \E m \in Modes, out \in TimedMsgs : BodyYield(m, out)
    \/ BodyYieldReturn
    \/ \E e \in {NoErr, ErrApp, ErrBodyPanic} : BodyReturn(e)
    \/ BodyDeferStatus
    \/ BodyDeferCloseInput
    \/ BodyDeferCloseOutput
    \/ \E i \in FrameIds : ResumeCheck(i)
    \/ \E i \in FrameIds : ResumeRecv(i)
    \/ \E i \in FrameIds : ResumeSend(i)
    \/ \E i \in FrameIds : YieldCheck(i)
    \/ \E i \in FrameIds : YieldSuspend(i)
    \/ \E i \in FrameIds : YieldSend(i)
    \/ \E i \in FrameIds : YieldRecv(i)
    \/ \E i \in FrameIds : YieldRun(i)
    \/ \E t \in {Ctl, Body} : Abort(t)

SpecTimed == Init /\ [][NextTimed]_vars


\* ==================================================================
\* The claims
\* ==================================================================

\* C1: with one controller making plain Resume calls, the first Resume returns
\* an empty output and no error, the Resumes that succeed are the first ones,
\* and the (k+1)-th Resume, when it succeeds, returns exactly the output the
\* body passed to its k-th explicit Yield.
C1_ResumeReturnsYieldOutput ==
    \A k \in 1..Len(resumeRets) :
        /\ k = 1 => resumeRets[k].err = NoErr /\ resumeRets[k].out = NilSlice
        /\ resumeRets[k].err = NoErr =>
              /\ \A j \in 1..k : resumeRets[j].err = NoErr
              /\ k > 1 => /\ k - 1 <= Len(yieldCalls)
                          /\ resumeRets[k].out = yieldCalls[k - 1]

\* three Resumes succeeded and the last two returned two different Yield outputs
C1_Witness ==
    /\ ~viaStart
    /\ Len(resumeRets) = 3
    /\ \A k \in 1..3 : resumeRets[k].err = NoErr
    /\ resumeRets[2].out = <<"b", "a">>
    /\ resumeRets[3].out = <<"a">>

\* C2: the input of the first Resume is what c.function is invoked with, and
\* the input of the (k+1)-th Resume is what the body's k-th explicit Yield
\* returns, with no error: nothing is lost, repeated or reordered.
C2_YieldReturnsResumeInput ==
    /\ Len(bodyArgs) <= 1
    /\ Len(bodyArgs) = 1 => bodyArgs[1] = resumeCalls[1].in
    /\ \A k \in 1..Len(yieldRets) :
          /\ yieldRets[k].err = NoErr
          /\ k + 1 <= Len(resumeCalls)
          /\ yieldRets[k].in = resumeCalls[k + 1].in

\* the body was entered with one input and its two Yields returned two others
C2_Witness ==
    /\ bodyArgs = << <<"b", "a">> >>
    /\ Len(yieldRets) = 2
    /\ yieldRets[1].in = <<"a">>
    /\ yieldRets[2].in = << >>


\* the changes of status the state machine allows
AllowedMoves ==
    {<<CREATED, RUNNING>>, <<RUNNING, SUSPENDED>>, <<SUSPENDED, RUNNING>>}
        \cup {<<s, CLOSED>> : s \in Status \ {CLOSED}}

\* C3: every change of c.status is Created->Running, Running->Suspended,
\* Suspended->Running or a move into Closed.
C3_StatusMoves ==
    prevStatus # "none" => <<prevStatus, status>> \in AllowedMoves

\* C4: once c.status is Closed it stays Closed, whatever calls are in flight
\* or made afterwards.
C4_ClosedIsFinal == [][status = CLOSED => status' = CLOSED]_vars

\* C6: when a timed or cancellable call has failed with the deadline error,
\* c.status is Closed from then on.
C6_DeadlineCloses == DeadlineFailed => status = CLOSED

\* C7: no Resume made after a call failed with the deadline error returns
\* successfully.
C7_NoResumeAfterDeadline ==
    \A k \in 1..Len(resumeRets) :
        resumeCalls[k].afterDeadline => resumeRets[k].err # NoErr


\* C5: a Resume or Yield made when c.status is Closed returns the
\* closed-coroutine error and no output, does no channel operation, and the
\* status stays Closed; so does every further such call.
C5_ClosedCallsFail ==
    \A i \in {Ctl, Body} :
        fr[i].late =>
            /\ status = CLOSED
            /\ fr[i].ops = 0
            /\ fr[i].got = NilSlice
            /\ fr[i].pc \in {"r_check", "y_check", "done"}
            /\ fr[i].pc = "done" => fr[i].err = ErrCoroutineIsClosed

\* a Yield and then a Resume made on the closed coroutine have both failed
C5_Witness ==
    /\ Len(lateYields) = 1
    /\ lateYields[1].err = ErrCoroutineIsClosed
    /\ fr[Ctl].late
    /\ fr[Ctl].kind = "resume"
    /\ fr[Ctl].pc = "done"
    /\ bodyPc = "closed"

\* C8: the Resume that is waiting for output when the entry point returns an
\* application error returns that error.
C8_BodyErrorReachesResume ==
    \A k \in 1..Len(resumeRets) :
        resumeRets[k].bodyErr = ErrApp => resumeRets[k].err = ErrApp

\* the body task has received its first input: it runs, or has run, the entry point
BodyEntered == bodyPc \in {"user", "yielding", "defer1", "defer2", "defer3", "closed"}

\* C9: Create returns with status Created; until a Resume has sent its input
\* the status is Created and the entry point has not been invoked; the status
\* leaves Created only when the startup Yield has received that input, the
\* entry point is invoked after that, and it is invoked once.
C9_BodyStartsOnFirstResume ==
    /\ createErr = NoErr => statusAtCreate = CREATED
    /\ Len(bodyArgs) = (IF BodyEntered THEN 1 ELSE 0)
    /\ nSends = 0 => status = CREATED /\ ~BodyEntered
    /\ status = CREATED =>
          /\ ~BodyEntered
          /\ bodyPc = "starting" => fr[Body].pc # "done"
    /\ (status # CREATED /\ ~BodyEntered) =>
          /\ bodyPc = "starting"
          /\ fr[Body].pc = "done"
          /\ fr[Body].err = NoErr
          /\ fr[Body].ops = 2

\* the entry point runs after the first Resume sent its input
C9_Witness ==
    /\ ~viaStart
    /\ bodyPc = "user"
    /\ status = RUNNING
    /\ nSends = 1
    /\ bodyArgs = << <<"a">> >>

\* C10: Start is Create and one plain Resume with no arguments: the entry
\* point is invoked with an empty argument sequence, and Start returns what
\* that Resume returned as its error.
C10_StartResumesWithNoArgs ==
    viaStart =>
        /\ Len(resumeCalls) <= 1
        /\ Len(resumeCalls) = 1 => resumeCalls[1].in = NilSlice
        /\ Len(bodyArgs) >= 1 => bodyArgs[1] = NilSlice
        /\ (startErr # "none" /\ createErr = NoErr) =>
              Len(resumeRets) = 1 /\ startErr = resumeRets[1].err

\* C14: Create given a callable of an unsupported shape returns the
\* invalid-function error and no Handle (Start returns that error too); no
\* task is spawned, no status is written, no channel is used and no call runs,
\* then or ever after.
C14_UnsupportedCreatesNothing ==
    createErr = ErrInvalidFunction =>
        /\ function = NilFunction
        /\ bodyPc = "none"
        /\ statusAtCreate = "none"
        /\ status = CREATED /\ prevStatus = "none"
        /\ inputCh = NewChan /\ outputCh = NewChan
        /\ \A i \in FrameIds : fr[i] = IdleFrame
        /\ nSends = 0 /\ nOrph = 0
        /\ resumeCalls = << >> /\ bodyArgs = << >>
        /\ ctlPc = "end"
        /\ viaStart => startErr = ErrInvalidFunction

\* Create has refused a callable
C14_Witness ==
    /\ ~viaStart
    /\ createErr = ErrInvalidFunction
    /\ ctlPc = "end"

\* C16: between Create and closure the controller, once a Resume has returned
\* to it, and the entry point of the body never run at the same time.
C16_OneSideActive ==
    ~(ctlPc = "ready" /\ Len(resumeRets) > 0 /\ bodyPc = "user")

\* C17: whenever c.status is Closed, c.inputCh and c.outputCh are both closed.
C17_ClosedMeansChannelsClosed ==
    status = CLOSED => inputCh.closed /\ outputCh.closed

\* the controller is inside Resume and cannot take its next step
CtlBlocked ==
    /\ fr[Ctl].kind = "resume"
    /\ \/ fr[Ctl].pc = "r_recv" /\ ~CanRecv(outputCh)
       \/ fr[Ctl].pc = "r_send" /\ ~CanSend(inputCh)

\* the body task is inside Yield and cannot take its next step
BodyBlocked ==
    /\ fr[Body].kind = "yield"
    /\ \/ fr[Body].pc = "y_send" /\ ~CanSend(outputCh)
       \/ fr[Body].pc = "y_recv" /\ ~CanRecv(inputCh)

\* C18: with one controller calling plain Resume and the body calling plain
\* Yield from its own task, the controller blocked inside Resume and the body
\* blocked inside Yield never happen together, and a send of either party
\* never finds the slot of its channel occupied.
C18_HandoffNeverDeadlocks ==
    /\ ~(CtlBlocked /\ BodyBlocked)
    /\ (fr[Ctl].kind = "resume" /\ fr[Ctl].pc = "r_send") => Len(inputCh.buf) = 0
    /\ fr[Body].pc = "y_send" => Len(outputCh.buf) = 0

\* the controller's third Resume is about to send while the body waits in its
\* second Yield for that input
C18_Witness ==
    /\ Len(resumeCalls) = 3
    /\ fr[Ctl].pc = "r_send"
    /\ Len(yieldCalls) = 2
    /\ fr[Body].pc = "y_recv"
    /\ BodyBlocked

\* the controller's n-th Resume waits for output and the entry point has ended
PendingAtEnd(n) ==
    /\ Len(resumeCalls) = n
    /\ fr[Ctl].kind = "resume"
    /\ fr[Ctl].pc = "r_recv"
    /\ bodyPc \in {"defer1", "defer2", "defer3"}

\* C19: a Resume that waits for output when the body task ends, by a return or
\* by a panic, is released by the closing of the channels and returns to its
\* caller with the empty output.
C19_PendingResumeReleased ==
    \A n \in 1..MaxResumes :
        PendingAtEnd(n) ~> (Len(resumeRets) >= n /\ resumeRets[n].out = NilSlice)

\* a Resume that was waiting when the entry point panicked has returned
C19_Witness ==
    \E n \in 1..Len(resumeRets) :
        /\ resumeRets[n].bodyErr = ErrBodyPanic
        /\ resumeRets[n].out = NilSlice
        /\ n > 1

\* C11: when the entry point of a body launched by Start spawns a task that
\* calls Yield(o) on the body's Handle and itself calls Resume(i) on it, then
\* in every interleaving the Resume returns o and no error, the Yield returns
\* i and no error, and Start returns nil.
C11_HandoffAcrossTasks ==
    /\ \A k \in 1..Len(bodyResumeRets) :
          /\ bodyResumeRets[k].err = NoErr
          /\ k <= Len(helperCalls)
          /\ bodyResumeRets[k].out = helperCalls[k]
    /\ \A k \in 1..Len(helperRets) :
          /\ helperRets[k].err = NoErr
          /\ k <= Len(bodyResumeCalls)
          /\ helperRets[k].in = bodyResumeCalls[k]
    /\ (createErr = NoErr /\ startErr # "none") => startErr = NoErr

\* the spawned task's Yield returned after the body task had closed the channels
C11_Witness ==
    /\ startErr = NoErr
    /\ bodyResumeRets = << [out |-> <<"b", "a">>, err |-> NoErr] >>
    /\ helperRets = << [in |-> <<"a">>, err |-> NoErr] >>
    /\ bodyPc = "closed"

\* C12: a TryResume that reads a status other than Suspended returns not-ok
\* without a channel operation; one that proceeds waits for no later Yield of
\* the body: whenever it stands at its receive with nothing to receive, the
\* output of a Yield the body has already entered is still to come.
C12_TryResumeNeverWaits ==
    \A r \in Res :
        rf[r].kind = "TryResume" =>
            /\ rf[r].seen \notin {"none", Suspended} =>
                  rf[r].ops = 0 /\ rf[r].ret = "notok"
            /\ (rf[r].pc = "r_recv" /\ Len(outCh) = 0) => outputsTaken < yieldsEntered

\* C13: once Call has returned, with the body's result or its failure, the
\* identifier is not in the registry and every Status call made from then on
\* returns Dead; so does Status of an identifier that was never registered;
\* a Status call that has loaded the Coroutine can always finish.
C13_StatusAfterEndIsDead ==
    /\ call.pc = "done" => ID1 \notin coroutines
    /\ Ghost \notin coroutines
    /\ (obs.late \/ obs.id = Ghost) => obs.pc # "loaded"
    /\ (obs.pc = "done" /\ (obs.late \/ obs.id = Ghost)) => obs.ret = Dead
    /\ obs.pc = "loaded" => ENABLED StatusRead

\* the body panicked, Call has returned, and a Status call made afterwards
\* returned Dead while the status field of the Coroutine still says Running
C13_Witness ==
    /\ call.pc = "done"
    /\ call.err = ErrBodyPanic
    /\ regStatus = Running
    /\ obs = [pc |-> "done", id |-> ID1, late |-> TRUE, ret |-> Dead]

\* the ways an AsyncResume fails
AsyncFailures == {ErrMissing, ErrDead, ErrSuspendedTimeout, ErrCallback}

\* C15: an AsyncResume that fails, by a missing identifier, a dead coroutine, a
\* handoff timeout or a panic of the callback, puts exactly one error on its
\* signal, and the send never blocks; one whose resume and callback succeed
\* puts nothing on it.
C15_AsyncErrorsOnSignal ==
    \A r \in Res :
        rf[r].kind = "AsyncResume" =>
            /\ rf[r].pc = "r_recover" => rf[r].ret \in AsyncFailures /\ rf[r].errCh = 0
            /\ rf[r].pc = "done" =>
                  \/ rf[r].ret = "ok" /\ rf[r].errCh = 0
                  \/ rf[r].ret \in AsyncFailures /\ rf[r].errCh = 1
            /\ rf[r].pc # "done" => rf[r].errCh = 0

\* one AsyncResume failed by the timeout of its handoff and another found the
\* coroutine dead; each signal holds one error
C15_Witness ==
    /\ rf[Res2].kind = "AsyncResume" /\ rf[Res2].pc = "done"
    /\ rf[Res2].ret = ErrSuspendedTimeout /\ rf[Res2].errCh = 1
    /\ rf[Res1].kind = "AsyncResume" /\ rf[Res1].pc = "done"
    /\ rf[Res1].ret = ErrDead /\ rf[Res1].errCh = 1

\* where a resume holds c.mutexResume
Locked == {"r_check", "r_recv", "r_send", "r_callback", "r_unlock"}

\* C20: Resume, TryResume and AsyncResume exclude each other: at most one task
\* is inside the handoff, the task inside its locked section is the one that
\* holds the lock, and the lock is free again whenever no task is in its
\* locked section, a handoff that timed out included.
C20_ResumesExcludeEachOther ==
    /\ Cardinality({r \in Res : rf[r].pc \in {"r_recv", "r_send"}}) <= 1
    /\ \A r \in Res : rf[r].pc \in Locked <=> mutexResume = r
    /\ (\A r \in Res : rf[r].pc \notin Locked) => mutexResume = Free

\* a resume is inside the handoff, holding the lock, after the handoff of the
\* other task timed out
C20_Witness ==
    /\ rf[Res2].pc = "done" /\ rf[Res2].ret = ErrSuspendedTimeout
    /\ rf[Res1].pc = "r_send"
    /\ mutexResume = Res1

\* the output the body published k-th: that of its startup Yield, then those
\* of its explicit Yields
PublishedOut(k) == IF k = 1 THEN NilSlice ELSE yieldCalls[k - 1]

\* the Resume calls of the two controllers that have returned without an error
Succeeded ==
    Cardinality({k \in 1..Len(resumeRets) : resumeRets[k].err = NoErr})
        + Cardinality({k \in 1..Len(ctl2Rets) : ctl2Rets[k].err = NoErr})

\* the Resume calls that are past their receive and have not returned yet
PastReceive == {i \in {Ctl, Ctl2} : fr[i].pc \in {"r_send", "done"}}

\* C21: with two controller tasks calling plain Resume concurrently, each
\* output the body publishes is received by one Resume, in the order of
\* publication; the input the body's k-th Yield returns (the startup Yield
\* first) is the input of the Resume that received that Yield's output; and
\* every Resume that received an output returns it without an error.
C21_TwoCallersNeverSwap ==
    /\ Len(takers) <= 1 + Len(yieldCalls)
    /\ \A k \in 1..Len(takers) : takers[k].out = PublishedOut(k)
    /\ Len(bodyArgs) <= 1
    /\ Len(bodyArgs) = 1 => Len(takers) >= 1 /\ bodyArgs[1] = takers[1].in
    /\ \A k \in 1..Len(yieldRets) :
          /\ yieldRets[k].err = NoErr
          /\ Len(takers) >= k + 1
          /\ yieldRets[k].in = takers[k + 1].in
    /\ \A k \in 1..Len(resumeRets) :
          resumeRets[k].err = NoErr =>
              \E j \in 1..Len(takers) :
                  takers[j] = [in |-> resumeCalls[k].in, out |-> resumeRets[k].out]
    /\ \A k \in 1..Len(ctl2Rets) :
          ctl2Rets[k].err = NoErr =>
              \E j \in 1..Len(takers) :
                  takers[j] = [in |-> ctl2Calls[k], out |-> ctl2Rets[k].out]
    /\ Succeeded <= Len(takers)
    /\ Len(takers) <= Succeeded + Cardinality(PastReceive)
    /\ PastReceive = {} => Len(takers) = Succeeded

\* the three outputs of the body went to the first, the second and the first
\* controller in turn, and its two Yields returned the inputs of the last two
C21_Witness ==
    /\ Len(takers) = 3
    /\ takers[1].in = <<"a">> /\ takers[2].in = <<"b", "a">> /\ takers[3].in = <<"a">>
    /\ takers[2].out = <<"a">> /\ takers[3].out = <<"b", "a">>
    /\ Len(yieldRets) = 2
    /\ yieldRets[1].in = <<"b", "a">> /\ yieldRets[2].in = <<"a">>
    /\ Succeeded = 3

====
